---- MODULE Spec2Model ----
(***************************************************************************)
(* Behavioural cloning trainer (imitation/algorithms/bc.py) and the reward *)
(* network wrappers (imitation/rewards/reward_nets.py).                    *)
(*                                                                         *)
(* Spec       : a BC trainer, its train() loop and the generator of        *)
(*              EpochOrBatchIteratorWithProgress.__iter__ that it drives.  *)
(* SpecShaped : ShapedRewardNet.forward applied to batches of transitions. *)
(* SpecLoss   : BC._calculate_loss applied to synthetic scalars.           *)
(* SpecLog    : train() called with every log_interval, no callbacks.      *)
(* SpecRebind : train() whose callbacks call set_expert_data_loader.       *)
(* SpecIter   : the iterator used on its own and iterated more than once.  *)
(* SpecTerm   : one iteration driven to its end, under weak fairness.      *)
(* SpecBasic  : BasicRewardNet constructed with every flag combination.    *)
(* SpecNormalized : NormalizedRewardNet.forward, predict and               *)
(*              predict_processed over a synthetic base net.               *)
(***************************************************************************)
EXTENDS Integers, Sequences, FiniteSets, TLC

\* ------------------------------------------------------------------ bounds
MaxTarget == 2        \* largest n_epochs / n_batches passed to train()
MaxPassLen == 2       \* most batches the data source produces in one pass
MaxBatchSize == 2     \* most examples in one batch
MaxCalls == 2         \* train() calls made on one trainer
MaxBatchLen == 3      \* transitions in one batch given to forward
MaxDiscount == 2      \* discount factors 0..MaxDiscount
MaxStat == 2          \* magnitude of the synthetic loss statistics
MaxWeight == 2        \* ent_weight and l2_weight range over 0..MaxWeight
MaxParams == 2        \* parameter tensors of the synthetic policy
MaxLogInterval == 2   \* log_interval arguments 0..MaxLogInterval
MaxIters == 2         \* iterations started on one iterator instance
MaxDim == 2           \* flattened size of an observation or an action
MaxFeature == 1       \* inputs of the synthetic base net are 0..MaxFeature
MaxBaseWeight == 2    \* weights of the synthetic base net 1..MaxBaseWeight
MaxMean == 1          \* means of the synthetic normalization layer
MaxInvStd == 2        \* inverse deviations of the normalization layer

\* bc.py 391: `log_interval: int = 100`
DefaultLogInterval == 100

\* Python's Optional[int]: None is the empty tuple, a value n the tuple <<n>>.
None == <<>>
Some(x) == <<x>>
Val(o) == o[1]
Range(f) == {f[i] : i \in DOMAIN f}

RECURSIVE SumSeq(_)
SumSeq(q) == IF q = <<>> THEN 0 ELSE q[1] + SumSeq(Tail(q))

Targets == {None} \cup {Some(n) : n \in 0..MaxTarget}
\* expert_data arguments: "A" is an iterable of batch dicts, "T" a
\* TransitionsMinimal instance; "None" is Python's None.
ExpertData == {"A", "T"}
OptimizerKwargs == {None, Some({}), Some({"eps"}), Some({"weight_decay"}),
                    Some({"eps", "weight_decay"})}

VARIABLES
    \* BC trainer (self.*)
    bc, policy, optimizer, opt_steps, lr_scheduler, sched_steps,
    epoch_end_step_callback, expert_data_loader, l2_weight,
    \* BC.train() frame
    train_pc, train_args, train_batch_num, train_calls, train_err,
    \* EpochOrBatchIteratorWithProgress instance (self.*) and the frame of
    \* the generator __iter__ returns
    it, gpc, samples_so_far, epoch_num, batch_num, got_data_on_epoch, display,
    \* the data source being iterated, and what the callers observed
    pass_pos, pass_lens, passes_started, yielded,
    user_epoch_end_calls, user_batch_end_calls,
    \* ShapedRewardNet
    potential, discount_factor, batch, final_rew,
    \* BC._calculate_loss
    loss_in, loss_out,
    \* the logger train() records to, the batch of the pair last yielded, the
    \* data source of the pass in progress, the expert_data last bound, and
    \* the number of generators made from the iterator instance
    logger, yielded_batch, pass_source, last_expert_data, iter_count,
    \* BasicRewardNet and NormalizedRewardNet
    basic_net, basic_out, normalized_net, normalized_out

bcVars == <<bc, policy, optimizer, opt_steps, lr_scheduler, sched_steps,
            epoch_end_step_callback, expert_data_loader, l2_weight>>
trainVars == <<train_pc, train_args, train_batch_num, train_calls, train_err>>
genVars == <<it, gpc, samples_so_far, epoch_num, batch_num, got_data_on_epoch,
             display>>
srcVars == <<pass_pos, pass_lens, passes_started, yielded,
             user_epoch_end_calls, user_batch_end_calls>>
shapedVars == <<potential, discount_factor, batch, final_rew>>
lossVars == <<loss_in, loss_out>>
obsVars == <<logger, yielded_batch, pass_source, last_expert_data, iter_count>>
netVars == <<basic_net, basic_out, normalized_net, normalized_out>>
vars == <<bcVars, trainVars, genVars, srcVars, shapedVars, lossVars, obsVars,
          netVars>>

\* ------------------------------------------------- values before any use
NoArgs == [n_epochs |-> None, n_batches |-> None,
           on_epoch_end |-> FALSE, on_batch_end |-> FALSE, log_interval |-> 0]
NoIter == [use_epochs |-> FALSE, data_loader |-> "None", n_epochs |-> None,
           n_batches |-> None, use_tqdm |-> FALSE, on_epoch_end |-> None,
           on_batch_end |-> FALSE]
NoDisplay == [exists |-> FALSE, closes |-> 0, advances |-> 0, desc |-> <<>>]
\* the logger as one train() call sees it: batches recorded and not yet
\* dumped, dumps made, and the keys recorded for the batch last processed
NoLog == [pending |-> 0, dumps |-> 0, keys |-> {}]

ShapedIdle ==
    /\ potential = <<>>
    /\ discount_factor = 0
    /\ batch = <<>>
    /\ final_rew = <<>>
LossIdle ==
    /\ loss_in = None
    /\ loss_out = None
BCIdle ==
    /\ bc = "unbuilt"
    /\ policy = "absent"
    /\ optimizer = "absent"
    /\ opt_steps = 0
    /\ lr_scheduler = "absent"
    /\ sched_steps = 0
    /\ epoch_end_step_callback = "absent"
    /\ expert_data_loader = "absent"
    /\ l2_weight = 0
    /\ train_pc = "idle"
    /\ train_args = NoArgs
    /\ train_batch_num = 0
    /\ train_calls = 0
    /\ train_err = "none"
    /\ it = NoIter
    /\ gpc = "idle"
    /\ samples_so_far = 0
    /\ epoch_num = 0
    /\ batch_num = 0
    /\ got_data_on_epoch = FALSE
    /\ display = NoDisplay
    /\ pass_pos = 0
    /\ pass_lens = <<>>
    /\ passes_started = 0
    /\ yielded = 0
    /\ user_epoch_end_calls = 0
    /\ user_batch_end_calls = 0
    /\ logger = NoLog
    /\ yielded_batch = None
    /\ pass_source = "None"
    /\ last_expert_data = "None"
    /\ iter_count = 0
NetIdle ==
    /\ basic_net = None
    /\ basic_out = None
    /\ normalized_net = None
    /\ normalized_out = None

Init == BCIdle /\ ShapedIdle /\ LossIdle /\ NetIdle

\* ------------------------------------------------------------ BC.__init__
\* weight_decay is found only when it is the only keyword
RejectsOnlyWeightDecayAlone(kw) == kw # None /\ Val(kw) = {"weight_decay"}

\* bc.py 224-225: `if optimizer_kwargs:` and `"weight_decay" in optimizer_kwargs`
RejectsOptimizerKwargs(kw) ==
    /\ kw # None
    /\ Val(kw) # {}
    /\ "weight_decay" \in Val(kw)

\* bc.py 290-298: a TransitionsMinimal instance is wrapped into a shuffled
\* DataLoader, anything else is bound as it is.
BoundLoader(expert_data) ==
    IF expert_data = "T" THEN "DataLoader(T)" ELSE expert_data

BCInit(kw, sched, lw, expert_data) ==
    /\ bc = "unbuilt"
    /\ IF RejectsOptimizerKwargs(kw)
       THEN /\ bc' = "rejected"             \* ValueError, nothing was assigned
            /\ UNCHANGED <<policy, optimizer, lr_scheduler,
                           epoch_end_step_callback, expert_data_loader,
                           l2_weight>>
       ELSE /\ bc' = "built"
            /\ policy' = "init"
            /\ optimizer' = [weight_decay |->
                                kw # None /\ "weight_decay" \in Val(kw)]
            /\ lr_scheduler' = IF sched THEN "built" ELSE "None"
            /\ epoch_end_step_callback' = IF sched THEN "step" ELSE "None"
            /\ l2_weight' = lw
            /\ expert_data_loader' =
                  IF expert_data = "None" THEN "None"
                  ELSE BoundLoader(expert_data)
    /\ last_expert_data' = IF RejectsOptimizerKwargs(kw) THEN "None"
                           ELSE expert_data
    /\ UNCHANGED <<opt_steps, sched_steps, trainVars, genVars, srcVars,
                   shapedVars, lossVars, logger, yielded_batch, pass_source,
                   iter_count, netVars>>

\* ------------------------------------------------- set_expert_data_loader
\* the first source bound is kept
KeepFirstBound(current, expert_data) ==
    IF current = "None" THEN BoundLoader(expert_data) ELSE current

\* bc.py 290-298: self.expert_data_loader is assigned whatever was bound
Rebound(current, expert_data) == BoundLoader(expert_data)

\* bc.py 272-298: the method body; last_expert_data remembers the argument
Bind(expert_data) ==
    /\ expert_data_loader' = Rebound(expert_data_loader, expert_data)
    /\ last_expert_data' = expert_data
    /\ UNCHANGED <<bc, policy, optimizer, opt_steps, lr_scheduler, sched_steps,
                   epoch_end_step_callback, l2_weight, trainVars, genVars,
                   srcVars, shapedVars, lossVars, logger, yielded_batch,
                   pass_source, iter_count, netVars>>

\* called between two train() calls
SetExpertDataLoader(expert_data) ==
    /\ bc = "built"
    /\ train_pc = "idle"
    /\ Bind(expert_data)

\* ------------------------------- EpochOrBatchIteratorWithProgress.__init__
\* only "neither" is rejected
AtLeastOneTarget(n_epochs, n_batches) == n_epochs # None \/ n_batches # None

\* bc.py 85-92: exactly one of n_epochs / n_batches is given
ValidTargets(n_epochs, n_batches) ==
    \/ n_epochs # None /\ n_batches = None
    \/ n_epochs = None /\ n_batches # None

UseEpochs(n_epochs, n_batches) == n_epochs # None /\ n_batches = None

\* util.join_callbacks(on_epoch_end, self.epoch_end_step_callback): the
\* callbacks that are present, the caller's first, run in that order.
JoinCallbacks(user, step) ==
    (IF user THEN <<"user">> ELSE <<>>) \o
    (IF step = "step" THEN <<"sched">> ELSE <<>>)

\* --------------------------------------------------------------- BC.train
\* bc.py 409-420, up to the creation of the generator by the for statement.
\* opt_steps and sched_steps count the optimizer.step() and
\* lr_scheduler.step() calls of this train() call.
TrainCall(ne, nb, ue, ub, li, tq) ==
    /\ bc = "built"
    /\ train_pc = "idle"
    /\ train_calls < MaxCalls
    /\ train_calls' = train_calls + 1
    /\ train_args' = [n_epochs |-> ne, n_batches |-> nb,
                      on_epoch_end |-> ue, on_batch_end |-> ub,
                      log_interval |-> li]
    /\ train_batch_num' = 0
    /\ logger' = NoLog
    /\ yielded_batch' = None
    /\ pass_source' = "None"
    /\ opt_steps' = 0
    /\ sched_steps' = 0
    /\ samples_so_far' = 0
    /\ epoch_num' = 0
    /\ batch_num' = 0
    /\ got_data_on_epoch' = FALSE
    /\ display' = NoDisplay
    /\ pass_pos' = 0
    /\ pass_lens' = <<>>
    /\ passes_started' = 0
    /\ yielded' = 0
    /\ user_epoch_end_calls' = 0
    /\ user_batch_end_calls' = 0
    /\ IF ~ValidTargets(ne, nb)
       THEN \* the iterator's constructor raises ValueError
            /\ train_pc' = "failed"
            /\ train_err' = "ValueError"
            /\ it' = NoIter
            /\ gpc' = "idle"
            /\ iter_count' = 0
            /\ UNCHANGED policy
       ELSE /\ it' = [use_epochs |-> UseEpochs(ne, nb),
                      data_loader |-> expert_data_loader,
                      n_epochs |-> ne, n_batches |-> nb, use_tqdm |-> tq,
                      on_epoch_end |-> JoinCallbacks(ue, epoch_end_step_callback),
                      on_batch_end |-> ub]
            /\ policy' = "train"
            /\ gpc' = "created"
            /\ iter_count' = 1
            /\ train_pc' = "next"
            /\ train_err' = "none"
    /\ UNCHANGED <<bc, optimizer, lr_scheduler, epoch_end_step_callback,
                   expert_data_loader, l2_weight, shapedVars, lossVars,
                   last_expert_data, netVars>>

\* ------------------------- EpochOrBatchIteratorWithProgress.__iter__ frame
\* bc.py 117-121: update_desc() shows the current batch and epoch counters
UpdateDesc(d, b, e) == IF d.exists THEN [d EXCEPT !.desc = <<b, e>>] ELSE d

\* bc.py 145, 161: display.update(1)
Advance(d) == IF d.exists THEN [d EXCEPT !.advances = @ + 1] ELSE d

\* the display is closed after the loop only, not in a finally clause
CloseOnReturnOnly(d, how) ==
    IF d.exists /\ how = "return" THEN [d EXCEPT !.closes = @ + 1] ELSE d

\* bc.py 165-167: the finally clause, run however the try block is left
\* (how: "return", "raise", or "close" for GeneratorExit thrown at the yield)
Finally(d, how) == IF d.exists THEN [d EXCEPT !.closes = @ + 1] ELSE d

\* the batch target has to be exceeded
BatchTargetPassed(b, n_batches) == b > Val(n_batches)

\* bc.py 146 and 162: the two termination tests
BatchTargetReached(b, n_batches) == b >= Val(n_batches)
EpochTargetReached(e, n_epochs) == e >= Val(n_epochs)

\* the empty-pass test is missing
NeverNoData(got) == FALSE

\* bc.py 148: `if not got_data_on_epoch`
NoDataOnEpoch(got) == ~got

\* The generator leaves its try block: the finally clause runs, and the
\* for statement of BC.train ends (StopIteration) or the exception
\* propagates out of train().
GenExit(d, how, err) ==
    /\ display' = Finally(d, how)
    /\ gpc' = CASE how = "return" -> "returned"
                [] how = "raise" -> "raised"
                [] OTHER -> "closed"
    /\ train_pc' = IF how = "return" THEN "done" ELSE "failed"
    /\ train_err' = err

\* the counters are kept on the iterator instance and set by its
\* constructor only
InstanceCounter(previous) == previous

\* bc.py 104-106: the counters are locals of __iter__, assigned 0 each time
\* a generator starts
FreshCounter(previous) == 0

\* bc.py 104-116: the first next() starts the body
GenStart ==
    /\ gpc = "created" /\ train_pc = "next"
    /\ samples_so_far' = FreshCounter(samples_so_far)
    /\ epoch_num' = FreshCounter(epoch_num)
    /\ batch_num' = FreshCounter(batch_num)
    /\ display' = IF it.use_tqdm THEN [NoDisplay EXCEPT !.exists = TRUE]
                  ELSE NoDisplay
    /\ gpc' = "top"
    /\ UNCHANGED <<bcVars, trainVars, it, got_data_on_epoch, srcVars,
                   shapedVars, lossVars,
                   obsVars, netVars>>

\* every pass reads the source the trainer has bound at that moment
TrainerBoundSource(own, bound) == bound

\* bc.py 94, 128: `for batch in self.data_loader`, self being the iterator,
\* whose data_loader was assigned once by its constructor
PassSource(own, bound) == own

\* bc.py 124-128: top of `while True`, then iter(self.data_loader)
LoopTop ==
    /\ gpc = "top"
    /\ got_data_on_epoch' = FALSE
    /\ pass_source' = PassSource(it.data_loader, expert_data_loader)
    /\ IF PassSource(it.data_loader, expert_data_loader) = "None"
       THEN \* `for batch in None` raises TypeError inside the try block
            /\ GenExit(UpdateDesc(display, batch_num, epoch_num), "raise",
                       "TypeError")
            /\ UNCHANGED <<pass_pos, passes_started>>
       ELSE /\ display' = UpdateDesc(display, batch_num, epoch_num)
            /\ passes_started' = passes_started + 1
            /\ pass_pos' = 0
            /\ gpc' = "pull"
            /\ UNCHANGED <<train_pc, train_err>>
    /\ UNCHANGED <<bcVars, train_args, train_batch_num, train_calls, it,
                   samples_so_far, epoch_num, batch_num, pass_lens, yielded,
                   user_epoch_end_calls, user_batch_end_calls, shapedVars,
                   lossVars, logger, yielded_batch, last_expert_data,
                   iter_count, netVars>>

\* the size of a batch is not checked
AcceptsAnyBatch(size) == TRUE

\* bc.py 131-132: `assert batch_size > 0`
AcceptsBatch(size) == size > 0

\* "U" is an iterable of batch dicts whose pass never ends (an endless
\* generator of batches); every other source ends each pass after at most
\* MaxPassLen batches.
MayProduce(src, pos) == src = "U" \/ pos < MaxPassLen
MayExhaust(src) == src # "U"

\* bc.py 128-139: the data source produces a batch of `size` examples
PullBatch(size) ==
    /\ gpc = "pull"
    /\ MayProduce(pass_source, pass_pos)
    /\ pass_pos' = pass_pos + 1
    /\ got_data_on_epoch' = TRUE
    /\ batch_num' = batch_num + 1
    /\ IF AcceptsBatch(size)
       THEN /\ samples_so_far' = samples_so_far + size
            /\ yielded' = yielded + 1
            /\ yielded_batch' = Some(size)
            /\ gpc' = "yield"
            /\ train_pc' = "body"
            /\ UNCHANGED <<display, train_err>>
       ELSE \* `assert batch_size > 0` fails
            /\ GenExit(display, "raise", "ZeroBatch")
            /\ UNCHANGED <<samples_so_far, yielded, yielded_batch>>
    /\ UNCHANGED <<bcVars, train_args, train_batch_num, train_calls, it,
                   epoch_num, pass_lens, passes_started, user_epoch_end_calls,
                   user_batch_end_calls, shapedVars, lossVars, logger,
                   pass_source, last_expert_data, iter_count, netVars>>

\* bc.py 128: the data source raises instead of producing a batch
PullRaises ==
    /\ gpc = "pull"
    /\ GenExit(display, "raise", "DataSource")
    /\ UNCHANGED <<bcVars, train_args, train_batch_num, train_calls, it,
                   samples_so_far, epoch_num, batch_num, got_data_on_epoch,
                   srcVars, shapedVars, lossVars,
                   obsVars, netVars>>

\* bc.py 128, 148-154: the pass is exhausted
PullExhausted ==
    /\ gpc = "pull"
    /\ MayExhaust(pass_source)
    /\ pass_lens' = Append(pass_lens, pass_pos)
    /\ IF NoDataOnEpoch(got_data_on_epoch)
       THEN /\ GenExit(display, "raise", "NoData")
            /\ UNCHANGED epoch_num
       ELSE /\ epoch_num' = epoch_num + 1
            /\ gpc' = "epoch_end"
            /\ UNCHANGED <<display, train_pc, train_err>>
    /\ UNCHANGED <<bcVars, train_args, train_batch_num, train_calls, it,
                   samples_so_far, batch_num, got_data_on_epoch, pass_pos,
                   passes_started, yielded, user_epoch_end_calls,
                   user_batch_end_calls, shapedVars, lossVars,
                   obsVars, netVars>>

\* bc.py 155-163: on_epoch_end, then the epoch-mode progress and test.
\* `raises`: the caller's callback raises.
EpochEnd(raises) ==
    /\ gpc = "epoch_end"
    /\ raises => "user" \in Range(it.on_epoch_end)
    /\ user_epoch_end_calls' =
          user_epoch_end_calls +
          (IF "user" \in Range(it.on_epoch_end) THEN 1 ELSE 0)
    /\ sched_steps' =
          sched_steps +
          (IF ~raises /\ "sched" \in Range(it.on_epoch_end) THEN 1 ELSE 0)
    /\ IF raises
       THEN GenExit(display, "raise", "on_epoch_end")
       ELSE IF it.use_epochs
       THEN IF EpochTargetReached(epoch_num, it.n_epochs)
            THEN GenExit(Advance(UpdateDesc(display, batch_num, epoch_num)),
                         "return", "none")
            ELSE /\ display' = Advance(UpdateDesc(display, batch_num, epoch_num))
                 /\ gpc' = "top"
                 /\ UNCHANGED <<train_pc, train_err>>
       ELSE /\ gpc' = "top"
            /\ UNCHANGED <<display, train_pc, train_err>>
    /\ UNCHANGED <<bc, policy, optimizer, opt_steps, lr_scheduler,
                   epoch_end_step_callback, expert_data_loader, l2_weight,
                   train_args, train_batch_num, train_calls, it,
                   samples_so_far, epoch_num, batch_num, got_data_on_epoch,
                   pass_pos, pass_lens, passes_started, yielded,
                   user_batch_end_calls, shapedVars, lossVars,
                   obsVars, netVars>>

\* bc.py 140-147: next() resumes the generator after the yield.
\* `raises`: on_batch_end raises.
BatchEnd(raises) ==
    /\ gpc = "yield" /\ train_pc = "next"
    /\ raises => it.on_batch_end
    /\ yielded_batch' = None
    /\ user_batch_end_calls' =
          user_batch_end_calls + (IF it.on_batch_end THEN 1 ELSE 0)
    /\ IF raises
       THEN GenExit(display, "raise", "on_batch_end")
       ELSE IF ~it.use_epochs
       THEN IF BatchTargetReached(batch_num, it.n_batches)
            THEN GenExit(Advance(UpdateDesc(display, batch_num, epoch_num)),
                         "return", "none")
            ELSE /\ display' = Advance(UpdateDesc(display, batch_num, epoch_num))
                 /\ gpc' = "pull"
                 /\ UNCHANGED <<train_pc, train_err>>
       ELSE /\ gpc' = "pull"
            /\ UNCHANGED <<display, train_pc, train_err>>
    /\ UNCHANGED <<bcVars, train_args, train_batch_num, train_calls, it,
                   samples_so_far, epoch_num, batch_num, got_data_on_epoch,
                   pass_pos, pass_lens, passes_started, yielded,
                   user_epoch_end_calls, shapedVars, lossVars, logger,
                   pass_source, last_expert_data, iter_count, netVars>>

\* bc.py 134-138: the keys of the stats the iterator yields with a batch
IterStatKeys == {"epoch_num", "batch_num", "samples_so_far"}
\* bc.py 335-343: the keys of the stats _calculate_loss returns
LossStatKeys == {"neglogp", "loss", "prob_true_act", "ent_loss_raw",
                 "ent_loss_term", "l2_loss_raw", "l2_loss_term"}
\* bc.py 442-453: stats_dict when it reaches the logger
TrainStatKeys == LossStatKeys \cup {"grad_norm", "weight_norm", "n_updates",
                                    "batch_size", "lr_gmean"}

\* bc.py 455-456: `for k, v in stats_dict.items(): logger.record_mean(k, v)`;
\* stats_dict_it, bound by the for statement at 420, is not read again
RecordedKeys(stats_dict_it, stats_dict) == stats_dict

\* the test is made on the number of batches processed
DumpOnCount(k, li) == (k + 1) % li = 0

\* bc.py 457: `batch_num % log_interval == 0`, batch_num counted from 0
ShouldDump(k, li) == k % li = 0

\* bc.py 423-460: the body of the for loop on one yielded batch.  With
\* log_interval = 0 the test at 457 raises ZeroDivisionError after the
\* optimizer step and the recording; the generator is then closed.
TrainBody ==
    /\ train_pc = "body"
    /\ opt_steps' = opt_steps + 1
    /\ IF train_args.log_interval = 0
       THEN /\ logger' = [logger EXCEPT
                             !.pending = @ + 1,
                             !.keys = RecordedKeys(IterStatKeys, TrainStatKeys)]
            /\ GenExit(display, "close", "ZeroDivisionError")
            /\ yielded_batch' = None
            /\ UNCHANGED train_batch_num
       ELSE /\ logger' =
                  IF ShouldDump(train_batch_num, train_args.log_interval)
                  THEN [pending |-> 0, dumps |-> logger.dumps + 1,
                        keys |-> RecordedKeys(IterStatKeys, TrainStatKeys)]
                  ELSE [logger EXCEPT
                          !.pending = @ + 1,
                          !.keys = RecordedKeys(IterStatKeys, TrainStatKeys)]
            /\ train_batch_num' = train_batch_num + 1
            /\ train_pc' = "next"
            /\ UNCHANGED <<display, gpc, train_err, yielded_batch>>
    /\ UNCHANGED <<bc, policy, optimizer, lr_scheduler, sched_steps,
                   epoch_end_step_callback, expert_data_loader, l2_weight,
                   train_args, train_calls, it, samples_so_far, epoch_num,
                   batch_num, got_data_on_epoch, srcVars, shapedVars, lossVars,
                   pass_source, last_expert_data, iter_count, netVars>>

\* bc.py 423-460 raises (the policy, the optimizer or the logger fails):
\* train() is left with the generator suspended at its yield; the generator
\* is closed, GeneratorExit is thrown at the yield and the finally clause runs.
TrainBodyRaises ==
    /\ train_pc = "body" /\ gpc = "yield"
    /\ GenExit(display, "close", "BodyError")
    /\ yielded_batch' = None
    /\ UNCHANGED <<bcVars, train_args, train_batch_num, train_calls, it,
                   samples_so_far, epoch_num, batch_num, got_data_on_epoch,
                   srcVars, shapedVars, lossVars, logger, pass_source,
                   last_expert_data, iter_count, netVars>>

\* train() has returned or raised: its frame, the iterator and the generator
\* are gone; the trainer keeps its policy, optimizer, scheduler and source.
TrainReturn ==
    /\ train_pc \in {"done", "failed"}
    /\ train_pc' = "idle"
    /\ train_args' = NoArgs
    /\ train_batch_num' = 0
    /\ train_err' = "none"
    /\ opt_steps' = 0
    /\ sched_steps' = 0
    /\ it' = NoIter
    /\ gpc' = "idle"
    /\ samples_so_far' = 0
    /\ epoch_num' = 0
    /\ batch_num' = 0
    /\ got_data_on_epoch' = FALSE
    /\ display' = NoDisplay
    /\ pass_pos' = 0
    /\ pass_lens' = <<>>
    /\ passes_started' = 0
    /\ yielded' = 0
    /\ user_epoch_end_calls' = 0
    /\ user_batch_end_calls' = 0
    /\ logger' = NoLog
    /\ yielded_batch' = None
    /\ pass_source' = "None"
    /\ iter_count' = 0
    /\ UNCHANGED <<bc, policy, optimizer, lr_scheduler, epoch_end_step_callback,
                   expert_data_loader, l2_weight, train_calls, shapedVars,
                   lossVars, last_expert_data, netVars>>

BCNext ==
    \/ \E kw \in OptimizerKwargs, sched \in BOOLEAN, lw \in {0, 1},
          d \in ExpertData \cup {"None"} : BCInit(kw, sched, lw, d)
    \/ \E d \in ExpertData : SetExpertDataLoader(d)
    \/ \E ne \in Targets, nb \in Targets, ue \in BOOLEAN, ub \in BOOLEAN,
          tq \in BOOLEAN :
              TrainCall(ne, nb, ue, ub, DefaultLogInterval, tq)
    \/ TrainBody
    \/ TrainBodyRaises
    \/ TrainReturn
    \/ GenStart
    \/ LoopTop
    \/ \E size \in 0..MaxBatchSize : PullBatch(size)
    \/ PullRaises
    \/ PullExhausted
    \/ \E raises \in BOOLEAN : EpochEnd(raises)
    \/ \E raises \in BOOLEAN : BatchEnd(raises)

Next == BCNext

Spec == Init /\ [][Next]_vars

\* ------------------------------------- train() with logging and rebinding
\* Both start from a trainer constructed without a scheduler and call train()
\* on a stdout that is not a terminal.
\* SpecLog    : train() is called with every log_interval in LogIntervals and
\*              without callbacks.
\* SpecRebind : train() is called with the default log_interval, and the
\*              caller's callbacks may call set_expert_data_loader while
\*              train() runs.
LogIntervals == 0..MaxLogInterval

\* the caller's on_batch_end or on_epoch_end is about to run
InUserCallback ==
    \/ gpc = "yield" /\ train_pc = "next" /\ it.on_batch_end
    \/ gpc = "epoch_end" /\ "user" \in Range(it.on_epoch_end)

\* bc.py 272-298, called from inside a callback of the running train() call
SetExpertDataLoaderInCallback(expert_data) ==
    /\ bc = "built"
    /\ InUserCallback
    /\ Bind(expert_data)

\* bc.py 180-270: BC(...) with no optimizer_kwargs and no lr_scheduler_cls
BCBuilt ==
    /\ bc = "built"
    /\ policy = "init"
    /\ optimizer = [weight_decay |-> FALSE]
    /\ opt_steps = 0
    /\ lr_scheduler = "None"
    /\ sched_steps = 0
    /\ epoch_end_step_callback = "None"
    /\ last_expert_data \in ExpertData \cup {"None"}
    /\ expert_data_loader = IF last_expert_data = "None" THEN "None"
                            ELSE BoundLoader(last_expert_data)
    /\ l2_weight = 0
    /\ train_pc = "idle"
    /\ train_args = NoArgs
    /\ train_batch_num = 0
    /\ train_calls = 0
    /\ train_err = "none"
    /\ it = NoIter
    /\ gpc = "idle"
    /\ samples_so_far = 0
    /\ epoch_num = 0
    /\ batch_num = 0
    /\ got_data_on_epoch = FALSE
    /\ display = NoDisplay
    /\ pass_pos = 0
    /\ pass_lens = <<>>
    /\ passes_started = 0
    /\ yielded = 0
    /\ user_epoch_end_calls = 0
    /\ user_batch_end_calls = 0
    /\ logger = NoLog
    /\ yielded_batch = None
    /\ pass_source = "None"
    /\ iter_count = 0

InitBuilt == BCBuilt /\ ShapedIdle /\ LossIdle /\ NetIdle

NextLog ==
    \/ \E d \in ExpertData : SetExpertDataLoader(d)
    \/ \E ne \in Targets, nb \in Targets, li \in LogIntervals :
          TrainCall(ne, nb, FALSE, FALSE, li, FALSE)
    \/ TrainBody
    \/ TrainBodyRaises
    \/ TrainReturn
    \/ GenStart
    \/ LoopTop
    \/ \E size \in 0..MaxBatchSize : PullBatch(size)
    \/ PullRaises
    \/ PullExhausted
    \/ EpochEnd(FALSE)
    \/ BatchEnd(FALSE)

SpecLog == InitBuilt /\ [][NextLog]_vars

NextRebind ==
    \/ \E d \in ExpertData : SetExpertDataLoader(d)
    \/ \E d \in ExpertData : SetExpertDataLoaderInCallback(d)
    \/ \E ne \in Targets, nb \in Targets, ue \in BOOLEAN, ub \in BOOLEAN :
          TrainCall(ne, nb, ue, ub, DefaultLogInterval, FALSE)
    \/ TrainBody
    \/ TrainBodyRaises
    \/ TrainReturn
    \/ GenStart
    \/ LoopTop
    \/ \E size \in 0..MaxBatchSize : PullBatch(size)
    \/ PullRaises
    \/ PullExhausted
    \/ \E raises \in BOOLEAN : EpochEnd(raises)
    \/ \E raises \in BOOLEAN : BatchEnd(raises)

SpecRebind == InitBuilt /\ [][NextRebind]_vars

\* ------------------------------------------ the iterator used on its own
\* SpecIter: a consumer constructs an EpochOrBatchIteratorWithProgress over
\* the batch iterable "A", without callbacks, and iterates it with for
\* statements of its own; train_pc is the consumer's position.
IterConstructed ==
    /\ bc = "unbuilt"
    /\ policy = "absent"
    /\ optimizer = "absent"
    /\ opt_steps = 0
    /\ lr_scheduler = "absent"
    /\ sched_steps = 0
    /\ epoch_end_step_callback = "absent"
    /\ expert_data_loader = "absent"
    /\ last_expert_data = "None"
    /\ l2_weight = 0
    /\ train_pc = "idle"
    /\ train_args = NoArgs
    /\ train_batch_num = 0
    /\ train_calls = 0
    /\ train_err = "none"
    /\ \E ne \in Targets, nb \in Targets, tq \in BOOLEAN :
          /\ ValidTargets(ne, nb)
          /\ it = [use_epochs |-> UseEpochs(ne, nb), data_loader |-> "A",
                   n_epochs |-> ne, n_batches |-> nb, use_tqdm |-> tq,
                   on_epoch_end |-> None, on_batch_end |-> FALSE]
    /\ gpc = "idle"
    /\ samples_so_far = 0
    /\ epoch_num = 0
    /\ batch_num = 0
    /\ got_data_on_epoch = FALSE
    /\ display = NoDisplay
    /\ pass_pos = 0
    /\ pass_lens = <<>>
    /\ passes_started = 0
    /\ yielded = 0
    /\ user_epoch_end_calls = 0
    /\ user_batch_end_calls = 0
    /\ logger = NoLog
    /\ yielded_batch = None
    /\ pass_source = "None"
    /\ iter_count = 0

InitIter == IterConstructed /\ ShapedIdle /\ LossIdle /\ NetIdle

\* bc.py 101: iter(it) makes a new generator of __iter__ on the same
\* instance, before any iteration, after one has ended, or while the
\* generator of the one before is suspended at its yield (which then stays
\* suspended, out of the model).  What the consumer has observed is counted
\* anew; the generator's locals are assigned when it starts.
IterCall ==
    /\ \/ gpc = "idle"
       \/ gpc \in {"returned", "raised", "closed"}
       \/ gpc = "yield" /\ train_pc = "body"
    /\ iter_count < MaxIters
    /\ iter_count' = iter_count + 1
    /\ gpc' = "created"
    /\ train_pc' = "next"
    /\ train_err' = "none"
    /\ got_data_on_epoch' = FALSE
    /\ pass_pos' = 0
    /\ pass_lens' = <<>>
    /\ passes_started' = 0
    /\ yielded' = 0
    /\ yielded_batch' = None
    /\ pass_source' = "None"
    /\ UNCHANGED <<bcVars, train_args, train_batch_num, train_calls, it,
                   samples_so_far, epoch_num, batch_num, display,
                   user_epoch_end_calls, user_batch_end_calls, shapedVars,
                   lossVars, logger, last_expert_data, netVars>>

\* the body of the consumer's for statement is done with the batch
ConsumeBatch ==
    /\ train_pc = "body" /\ gpc = "yield"
    /\ train_pc' = "next"
    /\ UNCHANGED <<bcVars, train_args, train_batch_num, train_calls, train_err,
                   genVars, srcVars, shapedVars, lossVars, obsVars, netVars>>

NextIter ==
    \/ IterCall
    \/ ConsumeBatch
    \/ GenStart
    \/ LoopTop
    \/ \E size \in 0..MaxBatchSize : PullBatch(size)
    \/ PullRaises
    \/ PullExhausted
    \/ EpochEnd(FALSE)
    \/ BatchEnd(FALSE)

SpecIter == InitIter /\ [][NextIter]_vars

\* ------------------------------------- one iteration driven to its end
\* SpecTerm: a consumer constructs an iterator over the batch iterable "A"
\* or, in batch mode, over the endless "U", iterates it once and never
\* abandons it.  (In epoch mode the first pass over "U" has no end and the
\* counters grow without bound; that case is left out.)
TermConstructedEndless ==
    /\ bc = "unbuilt"
    /\ policy = "absent"
    /\ optimizer = "absent"
    /\ opt_steps = 0
    /\ lr_scheduler = "absent"
    /\ sched_steps = 0
    /\ epoch_end_step_callback = "absent"
    /\ expert_data_loader = "absent"
    /\ last_expert_data = "None"
    /\ l2_weight = 0
    /\ train_pc = "idle"
    /\ train_args = NoArgs
    /\ train_batch_num = 0
    /\ train_calls = 0
    /\ train_err = "none"
    /\ \E nb \in Targets \ {None} :
          it = [use_epochs |-> FALSE, data_loader |-> "U", n_epochs |-> None,
                n_batches |-> nb, use_tqdm |-> FALSE, on_epoch_end |-> None,
                on_batch_end |-> FALSE]
    /\ gpc = "idle"
    /\ samples_so_far = 0
    /\ epoch_num = 0
    /\ batch_num = 0
    /\ got_data_on_epoch = FALSE
    /\ display = NoDisplay
    /\ pass_pos = 0
    /\ pass_lens = <<>>
    /\ passes_started = 0
    /\ yielded = 0
    /\ user_epoch_end_calls = 0
    /\ user_batch_end_calls = 0
    /\ logger = NoLog
    /\ yielded_batch = None
    /\ pass_source = "None"
    /\ iter_count = 0

InitTerm ==
    /\ IterConstructed \/ TermConstructedEndless
    /\ ShapedIdle /\ LossIdle /\ NetIdle

\* bc.py 101: the consumer's one for statement over the iterator
IterOnce ==
    /\ gpc = "idle"
    /\ IterCall

NextTerm ==
    \/ IterOnce
    \/ ConsumeBatch
    \/ GenStart
    \/ LoopTop
    \/ \E size \in 0..MaxBatchSize : PullBatch(size)
    \/ PullRaises
    \/ PullExhausted
    \/ EpochEnd(FALSE)
    \/ BatchEnd(FALSE)

\* The consumer keeps asking for the next pair, the generator's code runs,
\* and every pull on the data source comes back (with a batch, with the end
\* of the pass, or with an exception): some step is always taken.
SpecTerm == InitTerm /\ [][NextTerm]_vars /\ WF_vars(NextTerm)

\* ================================================= ShapedRewardNet.forward
\* Rewards, potentials and the discount are integers: forward uses only
\* +, - and *, so what holds of it in exact arithmetic is a polynomial
\* identity; rounding of float32 is not modelled.
States == {1, 2}
PotValues == {-1, 0, 2}
BaseValues == {0, 1}
Discounts == 0..MaxDiscount

\* reward_nets.py 499 with the flag inverted
NewShapingInverted(done, new_shaping_output) ==
    [i \in DOMAIN new_shaping_output |-> done[i] * new_shaping_output[i]]

\* reward_nets.py 499 without the terminal mask
NewShapingUnmasked(done, new_shaping_output) == new_shaping_output

\* reward_nets.py 499: new_shaping = (1 - done.float()) * new_shaping_output
NewShaping(done, new_shaping_output) ==
    [i \in DOMAIN new_shaping_output |-> (1 - done[i]) * new_shaping_output[i]]

\* reward_nets.py 479-480: self.potential applied to a batch of states
PotentialOf(pot, states) == [i \in DOMAIN states |-> pot[states[i]]]

\* reward_nets.py 500-504
FinalRew(base_out, discount, new_shaping, old_shaping_output) ==
    [i \in DOMAIN base_out |->
        base_out[i] + discount * new_shaping[i] - old_shaping_output[i]]

\* reward_nets.py 471-506. b[i].base is self.base(state, action, next_state,
\* done)[i], the output of the wrapped net for the action taken.
ShapedForward(pot, discount, b) ==
    LET base_reward_net_output == [i \in DOMAIN b |-> b[i].base]
        new_shaping_output == PotentialOf(pot, [i \in DOMAIN b |-> b[i].next_state])
        old_shaping_output == PotentialOf(pot, [i \in DOMAIN b |-> b[i].state])
        new_shaping == NewShaping([i \in DOMAIN b |-> b[i].done],
                                  new_shaping_output)
    IN  FinalRew(base_reward_net_output, discount, new_shaping,
                 old_shaping_output)

ShapedInit ==
    /\ potential \in [States -> PotValues]
    /\ discount_factor \in Discounts
    /\ batch = <<>>
    /\ final_rew = <<>>

\* The caller collects a batch of consecutive transitions: a transition starts
\* where the one before it ended, or anywhere after a terminal one.
AddTransition(s, s2, d, r) ==
    /\ final_rew = <<>>
    /\ Len(batch) < MaxBatchLen
    /\ (batch # <<>> /\ batch[Len(batch)].done = 0)
          => s = batch[Len(batch)].next_state
    /\ batch' = Append(batch, [state |-> s, next_state |-> s2, done |-> d,
                               base |-> r])
    /\ UNCHANGED <<potential, discount_factor, final_rew, bcVars, trainVars,
                   genVars, srcVars, lossVars,
                   obsVars, netVars>>

Forward ==
    /\ final_rew = <<>>
    /\ batch # <<>>
    /\ final_rew' = ShapedForward(potential, discount_factor, batch)
    /\ UNCHANGED <<potential, discount_factor, batch, bcVars, trainVars,
                   genVars, srcVars, lossVars,
                   obsVars, netVars>>

ShapedNext ==
    \/ \E s \in States, s2 \in States, d \in {0, 1}, r \in BaseValues :
          AddTransition(s, s2, d, r)
    \/ Forward

InitShaped == BCIdle /\ ShapedInit /\ LossIdle /\ NetIdle

SpecShaped == InitShaped /\ [][ShapedNext]_vars

\* ==================================================== BC._calculate_loss
\* bc.py 327: the divisor of `sum(l2_norms) / 2`
L2Divisor == 2
\* Every scalar is carried multiplied by Scale, so that the division of
\* line 327 is exact on integers: a variable holding v stands for v / Scale.
Scale == L2Divisor

\* bc.py 329 with the sign of the entropy bonus lost
EntTermPositive(ent_weight, ent_loss) == ent_weight * ent_loss

\* bc.py 329: ent_term = -self.ent_weight * ent_loss
EntTerm(ent_weight, ent_loss) == -ent_weight * ent_loss

\* bc.py 326-327: l2_loss_raw = sum(l2_norms) / 2
L2LossRaw(l2_norms) == (Scale * SumSeq(l2_norms)) \div L2Divisor

\* bc.py 321-344, from the means of log_prob and entropy on.
\* in.l2_norms[k] is th.sum(th.square(w)) of the k-th parameter tensor.
CalculateLoss(in) ==
    LET log_prob == Scale * in.log_prob
        entropy == Scale * in.entropy
        l2_loss_raw == L2LossRaw(in.l2_norms)
        ent_term == EntTerm(in.ent_weight, entropy)
        neglogp == -log_prob
        l2_term == in.l2_weight * l2_loss_raw
        loss == neglogp + ent_term + l2_term
    IN  [neglogp |-> neglogp, loss |-> loss, ent_loss_raw |-> entropy,
         ent_loss_term |-> ent_term, l2_loss_raw |-> l2_loss_raw,
         l2_loss_term |-> l2_term]

RECURSIVE SeqsUpTo(_, _)
SeqsUpTo(S, n) ==
    IF n = 0 THEN {<<>>}
    ELSE LET shorter == SeqsUpTo(S, n - 1)
         IN  shorter \cup {Append(q, x) : q \in shorter, x \in S}

LossInputs ==
    [log_prob : (-MaxStat)..0, entropy : 0..MaxStat,
     l2_norms : SeqsUpTo(0..MaxStat, MaxParams),
     ent_weight : 0..MaxWeight, l2_weight : 0..MaxWeight]

LossInit ==
    /\ loss_in \in LossInputs
    /\ loss_out = None

CalculateLossStep ==
    /\ loss_out = None
    /\ loss_out' = CalculateLoss(loss_in)
    /\ UNCHANGED <<loss_in, bcVars, trainVars, genVars, srcVars, shapedVars,
                   obsVars, netVars>>

InitLoss == BCIdle /\ ShapedIdle /\ LossInit /\ NetIdle

SpecLoss == InitLoss /\ [][CalculateLossStep]_vars

\* ============================================================ BasicRewardNet
\* reward_nets.py 253-270: combined_size, where next_state is counted with
\* the dimension of the action space
CombinedSizeNextAsAction(use, obs_dim, act_dim) ==
    (IF use.state THEN obs_dim ELSE 0) + (IF use.action THEN act_dim ELSE 0)
        + (IF use.next_state THEN act_dim ELSE 0) + (IF use.done THEN 1 ELSE 0)

\* reward_nets.py 253-270: combined_size, accumulated flag by flag; `use`
\* holds the four use_* arguments
CombinedSize(use, obs_dim, act_dim) ==
    LET s1 == IF use.state THEN obs_dim ELSE 0
        s2 == IF use.action THEN s1 + act_dim ELSE s1
        s3 == IF use.next_state THEN s2 + obs_dim ELSE s2
    IN  IF use.done THEN s3 + 1 ELSE s3

\* th.flatten(x, 1) on one transition: the row of the entries of component x
Flatten(x, dim) == [i \in 1..dim |-> <<x, i>>]

RECURSIVE Cat(_)
Cat(rows) == IF rows = <<>> THEN <<>> ELSE rows[1] \o Cat(Tail(rows))

\* reward_nets.py 297: th.cat(inputs, dim=1) refuses an empty list (None
\* stands for the RuntimeError)
ThCat(inputs) == IF inputs = <<>> THEN None ELSE Some(Cat(inputs))

\* reward_nets.py 287-295: the list `inputs`, appended to flag by flag
ForwardInputs(net) ==
    LET i1 == IF net.use_state THEN <<Flatten("state", net.obs_dim)>> ELSE <<>>
        i2 == IF net.use_action
              THEN Append(i1, Flatten("action", net.act_dim)) ELSE i1
        i3 == IF net.use_next_state
              THEN Append(i2, Flatten("next_state", net.obs_dim)) ELSE i2
    IN  IF net.use_done THEN Append(i3, <<<<"done", 1>>>>) ELSE i3

\* reward_nets.py 299: the first Linear layer takes rows of in_size entries
Mlp(net, inputs_concat) ==
    IF inputs_concat = None THEN "RuntimeError"
    ELSE IF Len(Val(inputs_concat)) # net.in_size THEN "RuntimeError"
    ELSE "outputs"

\* reward_nets.py 228-284
BasicInit(us, ua, un, ud, obs_dim, act_dim) ==
    /\ basic_net = None
    /\ basic_net' = Some([use_state |-> us, use_action |-> ua,
                          use_next_state |-> un, use_done |-> ud,
                          obs_dim |-> obs_dim, act_dim |-> act_dim,
                          in_size |-> CombinedSize(
                                         [state |-> us, action |-> ua,
                                          next_state |-> un, done |-> ud],
                                         obs_dim, act_dim)])
    /\ UNCHANGED <<basic_out, normalized_net, normalized_out, bcVars,
                   trainVars, genVars, srcVars, shapedVars, lossVars, obsVars>>

\* reward_nets.py 286-302
BasicForward ==
    /\ basic_net # None
    /\ basic_out = None
    /\ LET net == Val(basic_net)
           inputs == ForwardInputs(net)
           inputs_concat == ThCat(inputs)
       IN  basic_out' = Some([inputs |-> inputs,
                              inputs_concat |-> inputs_concat,
                              outputs |-> Mlp(net, inputs_concat)])
    /\ UNCHANGED <<basic_net, normalized_net, normalized_out, bcVars,
                   trainVars, genVars, srcVars, shapedVars, lossVars, obsVars>>

Dims == 1..MaxDim

BasicNext ==
    \/ \E us \in BOOLEAN, ua \in BOOLEAN, un \in BOOLEAN, ud \in BOOLEAN,
          obs_dim \in Dims, act_dim \in Dims :
              BasicInit(us, ua, un, ud, obs_dim, act_dim)
    \/ BasicForward

InitNets == BCIdle /\ ShapedIdle /\ LossIdle /\ NetIdle

SpecBasic == InitNets /\ [][BasicNext]_vars

\* ======================================================= NormalizedRewardNet
\* A batch is the sequence of the features of its transitions; the base net
\* is a synthetic linear map, the normalization layer an affine map.
Tensor(values, grad) ==
    [kind |-> "tensor", values |-> values, requires_grad |-> grad]
NdArray(values) ==
    [kind |-> "ndarray", values |-> values, requires_grad |-> FALSE]

NetBatches == {NdArray(q) : q \in SeqsUpTo(0..MaxFeature, MaxBatchLen) \ {<<>>}}
BaseNets == [weight : 1..MaxBaseWeight]
NormLayers == [mean : 0..MaxMean, inv_std : 1..MaxInvStd]

\* reward_nets.py 77-106: arrays become tensors (spaces without image
\* semantics: the values are kept)
Preprocess(x) == Tensor(x.values, FALSE)

\* the base net's forward on a preprocessed batch; its result carries
\* gradients unless it is computed under th.no_grad()
BaseForward(base, x_th, grad_enabled) ==
    Tensor([i \in DOMAIN x_th.values |-> base.weight * x_th.values[i]],
           grad_enabled)

\* reward_nets.py 108-143 on the base net
BasePredict(base, x) == NdArray(BaseForward(base, Preprocess(x), FALSE).values)

\* the normalization layer called on a tensor of rewards
ApplyLayer(layer, rew_th) ==
    Tensor([i \in DOMAIN rew_th.values |->
               (rew_th.values[i] - layer.mean) * layer.inv_std], TRUE)

\* forward normalizes what the base net returns
NormalizingForward(net, x_th, grad_enabled) ==
    IF net.rew_normalize_layer = None
    THEN BaseForward(net.base, x_th, grad_enabled)
    ELSE ApplyLayer(Val(net.rew_normalize_layer),
                    BaseForward(net.base, x_th, grad_enabled))

\* reward_nets.py 367-374
NormalizedForward(net, x_th, grad_enabled) ==
    BaseForward(net.base, x_th, grad_enabled)

\* reward_nets.py 108-143 inherited by the wrapper: preprocess, forward under
\* no_grad, then detach().cpu().numpy().flatten()
NormalizedPredict(net, x) ==
    NdArray(NormalizedForward(net, Preprocess(x), FALSE).values)

\* reward_nets.py 339-341: rew_normalize_class(1), or None for a falsy class
NormalizedInit(base, layer) ==
    /\ normalized_net = None
    /\ normalized_net' = Some([base |-> base, rew_normalize_layer |-> layer])
    /\ UNCHANGED <<basic_net, basic_out, normalized_out, bcVars, trainVars,
                   genVars, srcVars, shapedVars, lossVars, obsVars>>

\* reward_nets.py 367-374 called on tensors, gradients enabled
CallForward(x) ==
    /\ normalized_net # None /\ normalized_out = None
    /\ normalized_out' =
          Some([method |-> "forward", input |-> x, layer_inputs |-> <<>>,
                result |-> Some(NormalizedForward(Val(normalized_net),
                                                  Preprocess(x), TRUE))])
    /\ UNCHANGED <<basic_net, basic_out, normalized_net, bcVars, trainVars,
                   genVars, srcVars, shapedVars, lossVars, obsVars>>

\* reward_nets.py 108-143 called on the wrapper
CallPredict(x) ==
    /\ normalized_net # None /\ normalized_out = None
    /\ normalized_out' =
          Some([method |-> "predict", input |-> x, layer_inputs |-> <<>>,
                result |-> Some(NormalizedPredict(Val(normalized_net), x))])
    /\ UNCHANGED <<basic_net, basic_out, normalized_net, bcVars, trainVars,
                   genVars, srcVars, shapedVars, lossVars, obsVars>>

\* reward_nets.py 343-365; calling a None layer raises TypeError (None as
\* the result)
CallPredictProcessed(x) ==
    /\ normalized_net # None /\ normalized_out = None
    /\ LET net == Val(normalized_net)
           rew == BasePredict(net.base, x)
           rew_th == Tensor(rew.values, FALSE)
       IN  normalized_out' =
             Some([method |-> "predict_processed", input |-> x,
                   layer_inputs |-> <<rew_th>>,
                   result |->
                     IF net.rew_normalize_layer = None THEN None
                     ELSE Some(NdArray(ApplyLayer(
                                  Val(net.rew_normalize_layer),
                                  rew_th).values))])
    /\ UNCHANGED <<basic_net, basic_out, normalized_net, bcVars, trainVars,
                   genVars, srcVars, shapedVars, lossVars, obsVars>>

NormalizedNext ==
    \/ \E base \in BaseNets,
          layer \in {None} \cup {Some(l) : l \in NormLayers} :
              NormalizedInit(base, layer)
    \/ \E x \in NetBatches : CallForward(x)
    \/ \E x \in NetBatches : CallPredict(x)
    \/ \E x \in NetBatches : CallPredictProcessed(x)

SpecNormalized == InitNets /\ [][NormalizedNext]_vars

\* ======================================================== claims on Spec
Ended == gpc \in {"returned", "raised", "closed"}
Running == gpc \in {"top", "pull", "yield", "epoch_end"}
AllPassesNonEmpty == \A i \in DOMAIN pass_lens : pass_lens[i] > 0

\* C1: an iteration constructed with n_batches = B over a data source whose
\* passes are all non-empty yields exactly B pairs when it ends normally.
C1_BatchModeYieldsExactlyB ==
    (gpc = "returned" /\ ~it.use_epochs /\ AllPassesNonEmpty)
        => yielded = Val(it.n_batches)

\* C1, where the code agrees with it: for B >= 1 exactly B pairs are yielded,
\* whatever the partition into passes; for B <= 0 one pair is yielded.
BatchModeYieldsMaxOfBAndOne ==
    (gpc = "returned" /\ ~it.use_epochs)
        => yielded = (IF Val(it.n_batches) >= 1 THEN Val(it.n_batches) ELSE 1)

\* C2: an iteration constructed with n_epochs = E over a data source whose
\* passes are all non-empty drains the source exactly E times, yields the sum
\* of the batch counts of those passes and never stops inside a pass.
C2_EpochModeDrainsExactlyE ==
    (gpc = "returned" /\ it.use_epochs /\ AllPassesNonEmpty)
        => /\ Len(pass_lens) = Val(it.n_epochs)
           /\ passes_started = Val(it.n_epochs)
           /\ yielded = SumSeq(pass_lens)

\* C2, where the code agrees with it: max(E, 1) passes are drained, each to
\* its end, and every batch of them is yielded.
EpochModeDrainsMaxOfEAndOne ==
    (gpc = "returned" /\ it.use_epochs)
        => /\ Len(pass_lens) =
                (IF Val(it.n_epochs) >= 1 THEN Val(it.n_epochs) ELSE 1)
           /\ passes_started = Len(pass_lens)
           /\ yielded = SumSeq(pass_lens)
           /\ pass_pos = pass_lens[Len(pass_lens)]

\* C3: in either mode, once a pass over the data source has produced no
\* batch, the iteration has ended with the fatal "no data" error at the end
\* of that pass: it is the last pass started, the epoch counter and the
\* epoch-end callbacks stand at the number of passes before it.
C3_EmptyPassIsFatal ==
    (\E i \in DOMAIN pass_lens : pass_lens[i] = 0)
        => /\ gpc = "raised" /\ train_pc = "failed" /\ train_err = "NoData"
           /\ \A i \in DOMAIN pass_lens : pass_lens[i] = 0 <=> i = Len(pass_lens)
           /\ passes_started = Len(pass_lens)
           /\ epoch_num = Len(pass_lens) - 1
           /\ user_epoch_end_calls =
                 (IF train_args.on_epoch_end THEN Len(pass_lens) - 1 ELSE 0)
           /\ sched_steps =
                 (IF lr_scheduler = "built" THEN Len(pass_lens) - 1 ELSE 0)

\* an empty pass after a pass that produced batches has ended the iteration
C3_Witness ==
    /\ gpc = "raised" /\ train_err = "NoData"
    /\ Len(pass_lens) = 2 /\ pass_lens[1] > 0 /\ pass_lens[2] = 0

\* C4: a train() call given both n_epochs and n_batches, or neither, fails
\* with the constructor's ValueError: no generator is created, no pass is
\* started, no batch drawn, no optimizer or scheduler step made, and policy,
\* optimizer, scheduler and bound data source are what they were.
C4_BadTargetsStep ==
    (/\ train_calls' = train_calls + 1
     /\ (train_args'.n_epochs = None) = (train_args'.n_batches = None))
        => /\ train_pc' = "failed" /\ train_err' = "ValueError"
           /\ gpc' = "idle"
           /\ passes_started' = 0 /\ yielded' = 0
           /\ opt_steps' = 0 /\ sched_steps' = 0
           /\ policy' = policy
           /\ optimizer' = optimizer
           /\ lr_scheduler' = lr_scheduler
           /\ expert_data_loader' = expert_data_loader

\* C4: every step of the trainer that is a train() call with both targets
\* or neither is such a failing call without effect.
C4_BadTargetsFailBeforeAnyEffect == [][C4_BadTargetsStep]_vars

\* the first train() call of a trainer was given both targets and failed
C4_Witness ==
    /\ train_pc = "failed" /\ train_err = "ValueError"
    /\ train_args.n_epochs # None /\ train_args.n_batches # None
    /\ policy = "init" /\ gpc = "idle"

\* C5: an iteration that opened a progress display has closed it exactly
\* once when it has ended, however it ended, and has not closed it while it
\* is still running; an iteration without display closes nothing.
C5_DisplayClosedExactlyOnce ==
    /\ display.closes <= 1
    /\ (Running \/ Ended) => display.exists = it.use_tqdm
    /\ Ended => display.closes = (IF it.use_tqdm THEN 1 ELSE 0)
    /\ Running => display.closes = 0

\* the consumer left the iteration suspended at a yield, display open
C5_Witness ==
    /\ gpc = "closed" /\ train_err = "BodyError"
    /\ it.use_tqdm /\ display.closes = 1

\* C6: a trainer constructed with weight_decay among its optimizer_kwargs is
\* rejected before policy, optimizer or scheduler exist and before data is
\* bound, and never trains; no trainer exists whose optimizer was built with
\* weight_decay while l2_weight is nonzero.
C6_WeightDecayRejected ==
    /\ bc = "rejected" =>
          /\ policy = "absent" /\ optimizer = "absent"
          /\ lr_scheduler = "absent" /\ expert_data_loader = "absent"
          /\ train_calls = 0 /\ opt_steps = 0 /\ gpc = "idle"
    /\ bc = "built" => ~(optimizer.weight_decay /\ l2_weight # 0)

C6_Witness == bc = "rejected" /\ train_pc = "idle"

\* C10: with a scheduler configured, train(n_epochs = E) that ends normally
\* has advanced the scheduler exactly E times, and has invoked a
\* caller-supplied on_epoch_end as many times.
C10_SchedulerStepsOncePerEpoch ==
    (train_pc = "done" /\ it.use_epochs /\ lr_scheduler = "built")
        => /\ sched_steps = Val(it.n_epochs)
           /\ train_args.on_epoch_end => user_epoch_end_calls = sched_steps

\* C10, where the code agrees with it: the scheduler is advanced once per
\* pass that was drained without its callbacks failing, after the optimizer
\* step of every batch yielded so far, and a caller-supplied on_epoch_end has
\* run at each of those epoch ends too.
SchedulerStepsAtEveryEpochEnd ==
    (lr_scheduler = "built" /\ (Running \/ Ended))
        => /\ sched_steps \in {epoch_num, epoch_num - 1}
           /\ (gpc \in {"top", "pull", "yield", "returned"}
                  => sched_steps = epoch_num)
           /\ (train_args.on_epoch_end /\ train_err # "on_epoch_end")
                  => user_epoch_end_calls = sched_steps
           /\ gpc = "epoch_end" => opt_steps = batch_num

\* ================================================= claims on SpecShaped
Forwarded == final_rew # <<>>

\* C7: every element of the reward batch is base - potential(state) when
\* its own done flag is 1 and base + discount * potential(next_state) -
\* potential(state) when it is 0, whatever the flags of the other elements.
C7_ForwardFollowsOwnDoneFlag ==
    Forwarded =>
        /\ DOMAIN final_rew = DOMAIN batch
        /\ \A i \in DOMAIN batch :
              final_rew[i] =
                 IF batch[i].done = 1
                 THEN batch[i].base - potential[batch[i].state]
                 ELSE batch[i].base
                      + discount_factor * potential[batch[i].next_state]
                      - potential[batch[i].state]

\* forward ran on a mixed batch in which the mask changes the result
C7_Witness ==
    /\ Forwarded
    /\ discount_factor # 0
    /\ \E i, j \in DOMAIN batch :
          /\ batch[i].done = 1 /\ potential[batch[i].next_state] # 0
          /\ batch[j].done = 0 /\ potential[batch[j].next_state] # 0

\* the batch is one episode s_0 .. s_T: consecutive transitions, done on
\* the last one only
IsEpisode(b) ==
    /\ b # <<>>
    /\ b[Len(b)].done = 1
    /\ \A i \in 1..(Len(b) - 1) :
          b[i].done = 0 /\ b[i].next_state = b[i + 1].state

RECURSIVE Pow(_, _)
Pow(g, n) == IF n = 0 THEN 1 ELSE g * Pow(g, n - 1)

RECURSIVE DiscountedSum(_, _, _)
DiscountedSum(g, q, t) ==
    IF t > Len(q) THEN 0
    ELSE Pow(g, t - 1) * q[t] + DiscountedSum(g, q, t + 1)

\* C8: over an episode, the discounted sum of the shaped rewards is the
\* discounted sum of the base rewards minus the potential of the first
\* state, for every potential, discount, length and terminal state.
C8_ShapingPreservesReturn ==
    (Forwarded /\ IsEpisode(batch)) =>
        DiscountedSum(discount_factor, final_rew, 1) =
            DiscountedSum(discount_factor, [i \in DOMAIN batch |-> batch[i].base], 1)
            - potential[batch[1].state]

\* an episode of more than one step that ends in a state of nonzero
\* potential, with a nonzero discount
C8_Witness ==
    /\ Forwarded /\ IsEpisode(batch)
    /\ Len(batch) >= 2
    /\ discount_factor # 0
    /\ potential[batch[Len(batch)].next_state] # 0
    /\ potential[batch[1].state] # 0

\* =================================================== claims on SpecLoss
Calculated == loss_out # None

\* C9 as stated, with S the reported statistic l2_loss_raw:
\* loss = -L - we * E + wl * S / 2 (both sides multiplied by L2Divisor).
C9_LossHalvesReportedL2Raw ==
    Calculated =>
        L2Divisor * loss_out.loss =
            L2Divisor * (- Scale * loss_in.log_prob
                         - loss_in.ent_weight * Scale * loss_in.entropy)
            + loss_in.l2_weight * loss_out.l2_loss_raw

\* C9 amended: loss = -L - we * E + wl * S with S the reported l2_loss_raw,
\* which is half the summed squared norms Q of the parameters (so the l2
\* term is wl * Q / 2); and the reported terms add up to the reported loss,
\* with neglogp = -L and ent_loss_term = -we * E.
C9_LossDecomposition ==
    Calculated =>
        /\ loss_out.loss =
              - Scale * loss_in.log_prob
              - loss_in.ent_weight * Scale * loss_in.entropy
              + loss_in.l2_weight * loss_out.l2_loss_raw
        /\ L2Divisor * loss_out.l2_loss_raw = Scale * SumSeq(loss_in.l2_norms)
        /\ loss_out.loss =
              loss_out.neglogp + loss_out.ent_loss_term + loss_out.l2_loss_term
        /\ loss_out.neglogp = - Scale * loss_in.log_prob
        /\ loss_out.ent_loss_term =
              - loss_in.ent_weight * Scale * loss_in.entropy
        /\ loss_out.ent_loss_raw = Scale * loss_in.entropy

\* a loss in which all three terms are nonzero
C9_Witness ==
    /\ Calculated
    /\ loss_out.neglogp # 0
    /\ loss_out.ent_loss_term # 0
    /\ loss_out.l2_loss_term # 0

\* C12: for every batch train() has processed, the keys recorded to the
\* logger are the iterator-level keys epoch_num, batch_num, samples_so_far
\* merged with the twelve trainer-level keys.
C12_AllStatKeysRecorded ==
    (train_pc \in {"next", "done", "failed"} /\ train_batch_num > 0)
        => logger.keys = IterStatKeys \cup TrainStatKeys

\* C12, where the code agrees with it: the twelve trainer-level keys, and
\* only those, are recorded for every batch.
TrainerStatKeysRecorded ==
    (train_pc \in {"next", "done", "failed"} /\ train_batch_num > 0)
        => /\ logger.keys = TrainStatKeys
           /\ Cardinality(logger.keys) = 12
           /\ logger.keys \cap IterStatKeys = {}

\* the data loader that binding `expert_data` is to leave on the trainer
LoaderFor(expert_data) ==
    CASE expert_data = "None" -> "None"
      [] expert_data = "T" -> "DataLoader(T)"
      [] OTHER -> expert_data

\* C13: whatever sequence of bindings was made at construction and between
\* train() calls, the trainer's source is the one made from the last
\* expert_data bound (so binding it again changes nothing); a binding does
\* not fail and leaves policy, optimizer and scheduler alone; a train() call
\* gives its iterator that source, and every pass of the call is drawn from it.
C13_BindingStep ==
    /\ bc' = "built" => expert_data_loader' = LoaderFor(last_expert_data')
    /\ (bc = "built" /\ train_pc = "idle" /\ train_pc' = "idle")
          => /\ bc' = "built" /\ train_err' = "none"
             /\ UNCHANGED <<policy, optimizer, opt_steps, lr_scheduler,
                            sched_steps, epoch_end_step_callback, l2_weight>>
    /\ (train_pc = "idle" /\ train_pc' = "next")
          => it'.data_loader = LoaderFor(last_expert_data)
    /\ gpc' \in {"pull", "yield", "epoch_end"}
          => pass_source' = LoaderFor(last_expert_data')
C13_LastBoundSourceIsDrawn == [][C13_BindingStep]_vars

\* the second train() call of a trainer is handed a batch of the DataLoader
\* made from the TransitionsMinimal bound last
C13_Witness ==
    /\ train_calls = 2
    /\ last_expert_data = "T"
    /\ gpc = "yield"
    /\ pass_source = "DataLoader(T)"

\* C16: with the display enabled, once the generator has been resumed after a
\* yielded batch the description shows that batch's number, in epoch mode as
\* in batch mode; the display has advanced once per finished batch in batch
\* mode and once per finished epoch in epoch mode; and at a normal return the
\* number of advances is the target.
C16_DisplayFollowsEveryBatch ==
    (display.exists /\ (Running \/ gpc = "returned")) =>
        /\ gpc = "pull" => display.desc[1] = batch_num
        /\ ~it.use_epochs =>
              display.advances = (IF gpc = "yield" THEN batch_num - 1
                                  ELSE batch_num)
        /\ it.use_epochs =>
              display.advances = (IF gpc = "epoch_end" THEN epoch_num - 1
                                  ELSE epoch_num)
        /\ gpc = "returned" =>
              display.advances = (IF it.use_epochs THEN Val(it.n_epochs)
                                  ELSE Val(it.n_batches))

\* C16, where the code agrees with it: in batch mode the description follows
\* every batch; in epoch mode it is refreshed at the start and at the end of
\* each pass only, so inside a pass it shows the batch number the pass began
\* with; the advances are as claimed, their number at a normal return being
\* the target or 1 for a target below 1.
DisplayFollowsBoundaries ==
    (display.exists /\ (Running \/ gpc = "returned")) =>
        /\ (gpc = "pull" /\ ~it.use_epochs) => display.desc[1] = batch_num
        /\ (gpc = "pull" /\ it.use_epochs)
              => display.desc[1] = batch_num - pass_pos
        /\ ~it.use_epochs =>
              display.advances = (IF gpc = "yield" THEN batch_num - 1
                                  ELSE batch_num)
        /\ it.use_epochs =>
              display.advances = (IF gpc = "epoch_end" THEN epoch_num - 1
                                  ELSE epoch_num)
        /\ gpc = "returned" =>
              LET target == IF it.use_epochs THEN Val(it.n_epochs)
                            ELSE Val(it.n_batches)
              IN  display.advances = (IF target >= 1 THEN target ELSE 1)

\* C18: on_batch_end has run once for every yielded batch the consumer is
\* done with, before the next pull, the epoch end or the return; on_epoch_end
\* has run once for every drained non-empty pass, after the on_batch_end of
\* the pass's last batch; a return at the batch target runs no on_epoch_end
\* for the pass in progress, so with passes of p batches each and
\* n_batches = k * p it has run k - 1 times.
C18_CallbacksOncePerBatchAndPass ==
    (Running \/ Ended) =>
        /\ it.on_batch_end =>
              user_batch_end_calls =
                 (IF gpc \in {"yield", "closed"} THEN yielded - 1 ELSE yielded)
        /\ train_args.on_epoch_end =>
              user_epoch_end_calls =
                 Len(pass_lens) - (IF gpc = "epoch_end" THEN 1 ELSE 0)
                                - (IF train_err = "NoData" THEN 1 ELSE 0)
        /\ (gpc = "returned" /\ ~it.use_epochs /\ train_args.on_epoch_end
               /\ pass_pos > 0
               /\ \A i \in DOMAIN pass_lens : pass_lens[i] = pass_pos)
              => \A k \in 1..(MaxTarget + 1) :
                    Val(it.n_batches) = k * pass_pos
                       => user_epoch_end_calls = k - 1

\* train(n_batches=2) with both callbacks over passes of one batch each has
\* returned: on_batch_end ran twice, on_epoch_end once
C18_Witness ==
    /\ gpc = "returned"
    /\ it.n_batches = Some(2)
    /\ pass_lens = <<1>> /\ pass_pos = 1
    /\ train_args.on_epoch_end /\ it.on_batch_end
    /\ user_batch_end_calls = 2
    /\ user_epoch_end_calls = 1

\* C19: the step that yields the k-th pair of an iteration leaves batch_num
\* = k, epoch_num = the number of passes completed before it, and
\* samples_so_far raised by the size of the yielded batch, which is at least
\* 1, so samples_so_far >= batch_num; no other step of the iteration changes
\* samples_so_far, and no step lowers a counter.
C19_StatsStep ==
    /\ yielded' = yielded + 1
          => /\ gpc' = "yield"
             /\ yielded_batch' # None
             /\ Val(yielded_batch') >= 1
             /\ batch_num' = yielded'
             /\ epoch_num' = Len(pass_lens')
             /\ samples_so_far' = samples_so_far + Val(yielded_batch')
             /\ samples_so_far' >= batch_num'
    /\ (Running /\ (Running' \/ Ended'))
          => /\ yielded' = yielded => samples_so_far' = samples_so_far
             /\ batch_num' >= batch_num
             /\ epoch_num' >= epoch_num
             /\ epoch_num' # epoch_num => batch_num' = batch_num
C19_StatsCountYieldedBatches == [][C19_StatsStep]_vars

\* the third pair of an iteration, the first of its second pass, after
\* batches of two sizes
C19_Witness ==
    /\ gpc = "yield"
    /\ yielded = 3
    /\ epoch_num = 1
    /\ pass_lens = <<2>>
    /\ samples_so_far = 5
    /\ yielded_batch = Some(2)

\* ================================================== claims on SpecLog
\* C11: during one train() call with log_interval >= 1, the body run on the
\* batch of 0-based index k records that batch's stats and then dumps the
\* logger exactly when k mod log_interval = 0: the first batch always dumps,
\* a dump leaves nothing pending, and after N batches the call has dumped
\* ceil(N / log_interval) times.
C11_FlushStep ==
    (train_pc = "body" /\ train_batch_num' = train_batch_num + 1
        /\ train_args.log_interval >= 1)
    => LET k == train_batch_num
           li == train_args.log_interval
           N == train_batch_num'
       IN  /\ logger'.keys # {}
           /\ IF k % li = 0
              THEN logger'.dumps = logger.dumps + 1 /\ logger'.pending = 0
              ELSE logger'.dumps = logger.dumps
                      /\ logger'.pending = logger.pending + 1
           /\ (k = 0 => logger'.dumps = 1)
           /\ (logger'.dumps - 1) * li < N
           /\ N <= logger'.dumps * li
C11_FlushEveryLogInterval == [][C11_FlushStep]_vars

\* a call with log_interval = 2 that processed three batches dumped twice
C11_Witness ==
    /\ train_args.log_interval = 2
    /\ train_batch_num = 3
    /\ logger.dumps = 2
    /\ logger.pending = 0

\* =============================================== claims on SpecRebind
\* C20: a train() call gives its iterator the source bound when the call
\* starts; while the call runs the iterator keeps that source and every pass
\* is drawn from it, also after a callback of the call has bound another
\* source to the trainer, which the running call's iterator, counters and data
\* do not see.
C20_RunningCallStep ==
    /\ (train_pc = "idle" /\ train_pc' = "next")
          => it'.data_loader = expert_data_loader
    /\ (train_pc # "idle" /\ train_pc' # "idle")
          => it'.data_loader = it.data_loader
    /\ gpc' \in {"pull", "yield", "epoch_end"}
          => pass_source' = it'.data_loader
    /\ (train_pc # "idle" /\ expert_data_loader' # expert_data_loader)
          => /\ expert_data_loader' = LoaderFor(last_expert_data')
             /\ UNCHANGED <<trainVars, genVars, srcVars, pass_source,
                            yielded_batch>>
C20_RunningCallKeepsItsSource == [][C20_RunningCallStep]_vars

\* the first batch of the second pass of a call started on source "A" is
\* handed over after a callback of the call bound a TransitionsMinimal
C20_Witness ==
    /\ gpc = "yield" /\ train_pc = "body"
    /\ epoch_num = 1 /\ pass_pos = 1
    /\ it.data_loader = "A"
    /\ pass_source = "A"
    /\ expert_data_loader = "DataLoader(T)"

\* ================================================ claims on SpecNormalized
\* the base net's raw rewards for a batch: weight times feature
RawRewards(net, x) == [i \in DOMAIN x.values |-> net.base.weight * x.values[i]]

\* C14: forward of a NormalizedRewardNet returns the base net's raw rewards,
\* with gradients, and predict the same values as an array; neither calls
\* the normalization layer.  predict_processed calls the layer once, on the
\* gradient-free raw prediction of the base net, and returns the layer's
\* values.
C14_ForwardIsPassThrough ==
    normalized_out # None =>
        LET out == Val(normalized_out)
            net == Val(normalized_net)
            raw == RawRewards(net, out.input)
        IN  /\ out.method = "forward"
                  => /\ out.result = Some(Tensor(raw, TRUE))
                     /\ out.layer_inputs = <<>>
            /\ out.method = "predict"
                  => /\ out.result = Some(NdArray(raw))
                     /\ out.layer_inputs = <<>>
            /\ out.method = "predict_processed"
                  => /\ out.layer_inputs = <<Tensor(raw, FALSE)>>
                     /\ net.rew_normalize_layer # None
                          => out.result =
                               Some(NdArray(
                                 [i \in DOMAIN raw |->
                                    (raw[i] - Val(net.rew_normalize_layer).mean)
                                    * Val(net.rew_normalize_layer).inv_std]))

\* forward was called on a net whose layer is not the identity, with a batch
\* whose raw rewards the layer would change
C14_Witness ==
    /\ normalized_out # None
    /\ Val(normalized_out).method = "forward"
    /\ Val(normalized_net).rew_normalize_layer = Some([mean |-> 1, inv_std |-> 2])
    /\ Val(normalized_out).input.values = <<1, 0>>

FirstPairFromZero ==
    /\ batch_num = 1
    /\ epoch_num = 0
    /\ samples_so_far = Val(yielded_batch)

\* C17: an iteration started a second time on the same instance, after the
\* first has ended or while it is suspended, does not produce a fresh
\* sequence whose epoch, batch and sample counters start again from zero.
C17_SecondIterationIsNotFresh ==
    (iter_count >= 2 /\ gpc = "yield" /\ yielded = 1) => ~FirstPairFromZero

\* C17 as the code has it: every iteration started on an instance, the
\* second as the first, starts its counters from zero and counts alone.
C17_EveryIterationIsFresh ==
    /\ (iter_count >= 1 /\ gpc = "top" /\ passes_started = 0)
          => samples_so_far = 0 /\ epoch_num = 0 /\ batch_num = 0
    /\ (iter_count >= 1 /\ gpc = "yield")
          => /\ batch_num = yielded
             /\ epoch_num = Len(pass_lens)
             /\ yielded = 1 => FirstPairFromZero

\* the second iteration on an instance hands over its first pair
C17_Witness ==
    /\ iter_count = 2
    /\ gpc = "yield"
    /\ yielded = 1
    /\ FirstPairFromZero

\* ====================================================== claims on SpecTerm
\* the data source itself failed: it raised, or produced an empty batch
SourceFault == train_err \in {"DataSource", "ZeroBatch"}

\* an empty pass is the last one, and ended the iteration with the fatal error
EmptyPassEndsIteration ==
    \A i \in DOMAIN pass_lens :
        pass_lens[i] = 0 => (i = Len(pass_lens) /\ train_err = "NoData")

\* C21: an iteration driven to completion ends, normally or with the
\* empty-pass error (or on a failure of the data source itself); in batch
\* mode it has never yielded more than the target number of batches, also
\* over a pass that never ends; and no pass without a batch is followed by
\* another pass.
C21_IterationEndsWithinTarget ==
    /\ <>Ended
    /\ [](Ended => (gpc = "returned" \/ train_err = "NoData" \/ SourceFault))
    /\ [](~it.use_epochs => yielded <= Val(it.n_batches))
    /\ []EmptyPassEndsIteration

\* C21, where the code agrees with it: the iteration ends; in batch mode it
\* never yields more than the target, or than one batch for a target below 1.
IterationEndsWithinMaxOfTargetAndOne ==
    /\ <>Ended
    /\ [](Ended => (gpc = "returned" \/ train_err = "NoData" \/ SourceFault))
    /\ [](~it.use_epochs =>
            yielded <= (IF Val(it.n_batches) >= 1 THEN Val(it.n_batches)
                        ELSE 1))
    /\ []EmptyPassEndsIteration

====
